---- MODULE Spec2Model ----
(***************************************************************************)
(* The self-scheduling counter object HelloObject23 of the gem5 tutorial   *)
(* (src/reference/src/hello_object23.{hh,cc}) and the part of the host     *)
(* simulator it talks to: the tick clock (curTick) and the event queue     *)
(* that schedule() inserts into and that the host delivers from.           *)
(*                                                                         *)
(* The host is not part of the repository.  It is modelled as the          *)
(* environment, by the contract the object relies on: a scheduled event    *)
(* is delivered once, at or after the requested tick and never before the  *)
(* host's current tick; startup() is invoked once per object, after        *)
(* construction, at whatever tick the host clock reads then (0 on a fresh  *)
(* run, later after a restored checkpoint).                                *)
(*                                                                         *)
(* timesLeft is an int and Tick a 64-bit unsigned; every value of the      *)
(* model stays far inside both ranges, so neither wraps.                   *)
(***************************************************************************)
EXTENDS Integers, Sequences, FiniteSets

\* ------------------------------------------------------------------ constants

\* hello_object23.cc:12   timesLeft(10)
InitTimesLeft == 10

\* hello_object23.cc:12   latency(100)
InitLatency == 100

\* ------------------------------------------------------------------ bounds

\* Initial counters other than the constructor's own: -MaxNegCounter..MaxCounter
MaxCounter == 3

MaxNegCounter == 1

\* Delays other than the constructor's own: 1..MaxSmallLatency
MaxSmallLatency == 2

\* The host clock reads 0..MaxStartTick when the object graph is built
MaxStartTick == 2

\* The host delivers an event 0..MaxLate ticks after the requested tick
MaxLate == 1

\* The host builds at most MaxDiagObjs diagnostic-only objects
MaxDiagObjs == 2

\* ------------------------------------------------------------------ inputs

\* The objects the host's configuration instantiates
ObjIds == {1}

SmallParams == ((0 - MaxNegCounter)..MaxCounter) \X (1..MaxSmallLatency)

\* <<initial counter, delay>> pairs an object is constructed with: the
\* constructor's own pair and small pairs around the boundary cases
Params == SmallParams \cup {<<InitTimesLeft, InitLatency>>}

StartTicks == 0..MaxStartTick

Lates == 0..MaxLate

Max(a, b) == IF a >= b THEN a ELSE b

\* ------------------------------------------------------------------ state

VARIABLES
    curTick,     \* the host's current tick, curTick()
    objs,        \* the objects constructed so far
    timesLeft,   \* HelloObject23::timesLeft, per object
    latency,     \* HelloObject23::latency, per object
    eventq,      \* the host's event queue: the schedule() calls not yet delivered
    started,     \* per object: the host has invoked startup()
    timesLeft0,  \* history: the counter each object was constructed with
    requests,    \* history, per object: every schedule() call it made
    fireLog,     \* history, per object: every processEvent() run
    HelloExample, \* the debug flag HelloExample is enabled
    out,         \* the diagnostic lines emitted so far
    shadow,      \* per object: the same run under the opposite debug flag
    diag         \* the diagnostic-only objects constructed so far, by class

vars == <<curTick, objs, timesLeft, latency, eventq, started, timesLeft0,
          requests, fireLog, HelloExample, out, shadow, diag>>

\* f extended by the new key o
Bind(f, o, v) == [x \in (DOMAIN f) \cup {o} |-> IF x = o THEN v ELSE f[x]]

\* The entries of the event queue that belong to object o
PendingOf(o) == {i \in 1..Len(eventq) : eventq[i].obj = o}

Pending(o) == PendingOf(o) # {}

RemoveAt(q, i) == [j \in 1..(Len(q) - 1) |-> IF j < i THEN q[j] ELSE q[j + 1]]

\* ------------------------------------------------------------------ the code

\* EventManager::schedule(event, when), as called at hello_object23.cc:25,31
schedule(q, o, when) == Append(q, [obj |-> o, when |-> when])

\* A constructor that also schedules the event
CtorSchedules_Eager(D) == <<D>>

\* The schedule() calls of the constructor (hello_object23.cc:10-15): none
CtorSchedules(D) == <<>>

\* DPRINTF(HelloExample, text, arg): a line on the trace channel when the
\* flag is enabled, nothing otherwise   (hello_object23.cc:14,20,23)
DPRINTF(dbg, lines, text, arg) ==
    IF dbg THEN Append(lines, <<"HelloExample", text, arg>>) ELSE lines

\* timesLeft++ in place of timesLeft--
Decrement_Up(tl) == tl + 1

\* timesLeft--   (hello_object23.cc:19)
Decrement(tl) == tl - 1

\* The decrement written as an argument of DPRINTF, which evaluates its
\* arguments only when the flag is enabled
DecrementAndTrace_InMacro(dbg, tl) == IF dbg THEN Decrement(tl) ELSE tl

\* timesLeft--; DPRINTF(HelloExample, "... %d left", timesLeft)
\* (hello_object23.cc:19-20): the counter after the two statements
DecrementAndTrace(dbg, tl) == Decrement(tl)

\* The lines processEvent emits on a counter that it has decremented to tl
\* (hello_object23.cc:20-23)
ProcessEventLines(dbg, lines, tl) ==
    LET first == DPRINTF(dbg, lines, "Hello world! Processing the event! %d left", tl)
    IN  IF tl <= 0 THEN DPRINTF(dbg, first, "Done firing!", 0) ELSE first

\* if (timesLeft < 0): one firing too many
Reschedules_OffByOne(tl) == ~(tl < 0)

\* if (timesLeft <= 1): one firing too few
Reschedules_Early(tl) == ~(tl <= 1)

\* if (timesLeft == 0): a counter that starts at or below zero never stops
Reschedules_EqZero(tl) == ~(tl = 0)

\* The test dropped: every firing reschedules
Reschedules_Always(tl) == TRUE

\* The else branch of  if (timesLeft <= 0)   (hello_object23.cc:22-26)
Reschedules(tl) == ~(tl <= 0)

\* An off-by-one tick in the rescheduling
NextWhen_PlusOne(now, D) == now + D + 1

\* The bare delay as the tick, as startup() passes it
NextWhen_Absolute(now, D) == D

\* curTick() + latency   (hello_object23.cc:25)
NextWhen(now, D) == now + D

\* timesLeft as a static member: one counter shared by every instance
OwnCounter_Shared(f, o, tl) == [x \in DOMAIN f |-> tl]

\* int timesLeft   (hello_object23.hh:19): a member of the instance, so a
\* write through one object reaches that object's counter only
OwnCounter(f, o, tl) == [f EXCEPT ![o] = tl]

\* schedule(event, latency)   (hello_object23.cc:31): the tick is the bare delay
StartupWhen(now, D) == D

Request(by, now, when) == [by |-> by, at |-> now, when |-> when]

Init ==
    /\ curTick \in StartTicks
    /\ objs = {}
    /\ timesLeft = << >>
    /\ latency = << >>
    /\ eventq = << >>
    /\ started = << >>
    /\ timesLeft0 = << >>
    /\ requests = << >>
    /\ fireLog = << >>
    /\ HelloExample \in BOOLEAN
    /\ out = << >>
    /\ shadow = << >>
    /\ diag = << >>

\* HelloObject23::HelloObject23: stores the delay and the counter
Construct(o, N, D) ==
    /\ o \notin objs
    /\ objs' = objs \cup {o}
    /\ timesLeft' = Bind(timesLeft, o, N)
    /\ latency' = Bind(latency, o, D)
    /\ started' = Bind(started, o, FALSE)
    /\ timesLeft0' = Bind(timesLeft0, o, N)
    /\ LET whens == CtorSchedules(D)
       IN  /\ eventq' = eventq \o [k \in 1..Len(whens) |-> [obj |-> o, when |-> whens[k]]]
           /\ requests' = Bind(requests, o,
                  [k \in 1..Len(whens) |-> Request("ctor", curTick, whens[k])])
    /\ fireLog' = Bind(fireLog, o, << >>)
    /\ out' = DPRINTF(HelloExample, out, "Created the hello object", 0)
    /\ shadow' = Bind(shadow, o,
           [timesLeft |-> N,
            lefts |-> << >>,
            requests |-> [k \in 1..Len(CtorSchedules(D)) |->
                             Request("ctor", curTick, CtorSchedules(D)[k])]])
    /\ UNCHANGED <<curTick, HelloExample, diag>>

\* HelloObject23::startup, invoked by the host once per object
Startup(o) ==
    /\ o \in objs
    /\ ~started[o]
    /\ started' = [started EXCEPT ![o] = TRUE]
    /\ LET when == StartupWhen(curTick, latency[o])
       IN  /\ eventq' = schedule(eventq, o, when)
           /\ requests' = [requests EXCEPT
                  ![o] = Append(@, Request("startup", curTick, when))]
           /\ shadow' = [shadow EXCEPT
                  ![o].requests = Append(@, Request("startup", curTick, when))]
    /\ UNCHANGED <<curTick, objs, timesLeft, latency, timesLeft0, fireLog,
                   HelloExample, out, diag>>

\* The host delivers entry i of the event queue, late ticks after the tick
\* it was requested for, and the event runs HelloObject23::processEvent
Fire(i, late) ==
    /\ i \in 1..Len(eventq)
    /\ LET o    == eventq[i].obj
           now  == Max(curTick, eventq[i].when) + late
           tl   == DecrementAndTrace(HelloExample, timesLeft[o])
           stl  == DecrementAndTrace(~HelloExample, shadow[o].timesLeft)
           rest == RemoveAt(eventq, i)
       IN  /\ curTick' = now
           /\ timesLeft' = OwnCounter(timesLeft, o, tl)
           /\ fireLog' = [fireLog EXCEPT ![o] = Append(@,
                  [at |-> now, due |-> eventq[i].when, left |-> tl])]
           /\ IF Reschedules(tl)
              THEN LET when == NextWhen(now, latency[o])
                   IN  /\ eventq' = schedule(rest, o, when)
                       /\ requests' = [requests EXCEPT
                              ![o] = Append(@, Request("processEvent", now, when))]
              ELSE /\ eventq' = rest
                   /\ requests' = requests
           /\ out' = ProcessEventLines(HelloExample, out, tl)
           /\ shadow' = [shadow EXCEPT ![o] =
                  [timesLeft |-> stl,
                   lefts |-> Append(@.lefts, stl),
                   requests |-> IF Reschedules(stl)
                                THEN Append(@.requests, Request("processEvent",
                                         now, NextWhen(now, latency[o])))
                                ELSE @.requests]]
    /\ UNCHANGED <<objs, latency, started, timesLeft0, HelloExample, diag>>

Next ==
    \/ \E o \in ObjIds, p \in Params : Construct(o, p[1], p[2])
    \/ \E o \in ObjIds : Startup(o)
    \/ \E i \in 1..Len(eventq), late \in Lates : Fire(i, late)

Spec == Init /\ [][Next]_vars

\* The identity the host gives the next diagnostic-only object: below zero,
\* apart from the counter objects
NextDiagId == 0 - (Len(diag) + 1)

\* A HelloObject22 that registers a callback the way HelloObject23 does
HelloObject22Schedules_Callback == <<InitLatency>>

\* The schedule() calls of HelloObject21::HelloObject21
\* (hello_object21.cc:8-12): none
HelloObject21Schedules == << >>

\* The schedule() calls of HelloObject22::HelloObject22
\* (hello_object22.cc:10-14): none
HelloObject22Schedules == << >>

\* The event queue after an object with identity id has made the
\* schedule() calls whens
Scheduled(q, id, whens) ==
    q \o [k \in 1..Len(whens) |-> [obj |-> id, when |-> whens[k]]]

\* HelloObject21::HelloObject21: one line on std::cout
Construct21 ==
    /\ Len(diag) < MaxDiagObjs
    /\ diag' = Append(diag, "HelloObject21")
    /\ out' = Append(out, <<"cout", "Hello World! From a SimObject!", 0>>)
    /\ eventq' = Scheduled(eventq, NextDiagId, HelloObject21Schedules)
    /\ UNCHANGED <<curTick, objs, timesLeft, latency, started, timesLeft0,
                   requests, fireLog, HelloExample, shadow>>

\* HelloObject22::HelloObject22: one line on the trace channel
Construct22 ==
    /\ Len(diag) < MaxDiagObjs
    /\ diag' = Append(diag, "HelloObject22")
    /\ out' = DPRINTF(HelloExample, out, "Created the hello object", 0)
    /\ eventq' = Scheduled(eventq, NextDiagId, HelloObject22Schedules)
    /\ UNCHANGED <<curTick, objs, timesLeft, latency, started, timesLeft0,
                   requests, fireLog, HelloExample, shadow>>

\* A host configuration with one counter object, with a small counter and
\* delay, and diagnostic-only objects built at any point
NextDiag ==
    \/ \E o \in ObjIds, p \in SmallParams : Construct(o, p[1], p[2])
    \/ \E o \in ObjIds : Startup(o)
    \/ \E i \in 1..Len(eventq), late \in Lates : Fire(i, late)
    \/ Construct21
    \/ Construct22

SpecDiag == Init /\ [][NextDiag]_vars

\* Two counter objects on one host, with small counters and delays
MultiIds == {1, 2}

MultiParams == (0..2) \X (1..2)

NextMulti ==
    \/ \E o \in MultiIds, p \in MultiParams : Construct(o, p[1], p[2])
    \/ \E o \in MultiIds : Startup(o)
    \/ \E i \in 1..Len(eventq), late \in Lates : Fire(i, late)

SpecMulti == Init /\ [][NextMulti]_vars

\* The host's event loop runs until its queue is empty: an event that is
\* pending is eventually delivered.  No step tears an object down.
DeliverSome == \E i \in 1..Len(eventq), late \in Lates : Fire(i, late)

SpecLive == Init /\ [][Next]_vars /\ WF_vars(DeliverSome)

\* ------------------------------------------------------------------ claims

Fired(o) == Len(fireLog[o])

NumPending(o) == Cardinality(PendingOf(o))

\* Firing k of object o was delivered exactly at the tick it was requested for
OnTime(o, k) == fireLog[o][k].at = fireLog[o][k].due

\* C1: an object constructed with counter N >= 1 and activated fires at most
\* N times, firing j leaves the counter at N - j, it makes at most N
\* scheduling calls (the activation's and one per non-terminal firing), and
\* once nothing is pending it has fired exactly N times and the counter is
\* <= 0; after the N-th firing nothing is pending.
C1_FiresExactlyN ==
    \A o \in objs : (started[o] /\ timesLeft0[o] >= 1) =>
        LET N == timesLeft0[o]
            k == Fired(o)
        IN  /\ k <= N
            /\ timesLeft[o] = N - k
            /\ \A j \in 1..k : fireLog[o][j].left = N - j
            /\ Len(requests[o]) <= N
            /\ Len(requests[o]) = k + NumPending(o)
            /\ (~Pending(o) => k = N /\ timesLeft[o] <= 0)
            /\ (k = N => ~Pending(o))

C1_Witness ==
    \E o \in objs :
        /\ timesLeft0[o] = InitTimesLeft
        /\ Fired(o) = InitTimesLeft
        /\ ~Pending(o)

\* C2: the scheduling call of startup() names the host's current tick plus
\* the delay, whatever the host clock reads when startup() is invoked.
C2_StartupAtNowPlusDelay ==
    \A o \in objs : \A k \in 1..Len(requests[o]) :
        requests[o][k].by = "startup" =>
            requests[o][k].when = requests[o][k].at + latency[o]

\* C3: every firing that leaves the counter above zero requests the next
\* firing for the tick of this firing plus the delay, and a firing delivered
\* exactly at its requested tick comes exactly the delay after the firing
\* before it.
C3_NextFiringAfterDelay ==
    \A o \in objs : \A k \in 1..Fired(o) :
        /\ fireLog[o][k].left > 0 =>
              /\ k + 1 <= Len(requests[o])
              /\ requests[o][k + 1].by = "processEvent"
              /\ requests[o][k + 1].at = fireLog[o][k].at
              /\ requests[o][k + 1].when = fireLog[o][k].at + latency[o]
        /\ (k >= 2 /\ OnTime(o, k)) =>
              fireLog[o][k].at = fireLog[o][k - 1].at + latency[o]

C3_Witness ==
    \E o \in objs :
        /\ Fired(o) >= 3
        /\ latency[o] = InitLatency
        /\ \A k \in 1..Fired(o) : OnTime(o, k)

\* An object is Done once a firing has left its counter <= 0
Done(o) == o \in objs /\ Fired(o) >= 1 /\ timesLeft[o] <= 0

\* C4: once a firing has left the counter <= 0 nothing is pending for the
\* object, and every later step keeps the counter, schedules nothing and
\* leaves the object Done.
C4_DoneIsTerminal ==
    [][\A o \in ObjIds : Done(o) =>
          /\ ~Pending(o)
          /\ Done(o)'
          /\ timesLeft'[o] = timesLeft[o]
          /\ requests'[o] = requests[o]
          /\ fireLog'[o] = fireLog[o]
          /\ ~Pending(o)']_vars

C4_Witness ==
    \E o \in objs : Done(o) /\ timesLeft0[o] >= 2 /\ ~Pending(o)

Active(o) == timesLeft[o] > 0 /\ NumPending(o) = 1

Inert(o) == timesLeft[o] <= 0 /\ ~Pending(o)

C6_TenFiringsAHundredApart ==
    \A o \in objs :
        ( /\ timesLeft0[o] = InitTimesLeft
          /\ latency[o] = InitLatency
          /\ started[o]
          /\ requests[o][1].at = 0
          /\ \A k \in 1..Fired(o) : OnTime(o, k) ) =>
        /\ Fired(o) <= 10
        /\ \A k \in 1..Fired(o) :
              fireLog[o][k].at = 100 * k /\ fireLog[o][k].left = 10 - k
        /\ Fired(o) < 10 =>
              /\ NumPending(o) = 1
              /\ \A i \in PendingOf(o) : eventq[i].when = 100 * (Fired(o) + 1)
        /\ Fired(o) = 10 => timesLeft[o] = 0 /\ ~Pending(o)

C6_Witness ==
    \E o \in objs :
        /\ timesLeft0[o] = InitTimesLeft
        /\ latency[o] = InitLatency
        /\ started[o]
        /\ requests[o][1].at = 0
        /\ Fired(o) = 10
        /\ \A k \in 1..Fired(o) : OnTime(o, k)
        /\ curTick = 1000

\* C7: in every step the counter of an object either keeps its value or
\* drops by exactly one; it changes only in a step that is a firing of that
\* object's callback; the step that activates the object leaves it alone;
\* and no step changes the delay.
C7_CounterOnlyDecrements ==
    [][\A o \in objs :
          /\ timesLeft'[o] = timesLeft[o] \/ timesLeft'[o] = timesLeft[o] - 1
          /\ timesLeft'[o] # timesLeft[o] => Fired(o)' = Fired(o) + 1
          /\ started'[o] # started[o] => timesLeft'[o] = timesLeft[o]
          /\ latency'[o] = latency[o]]_vars

C7_Witness ==
    \E o \in objs :
        /\ started[o]
        /\ Fired(o) = 2
        /\ timesLeft[o] = timesLeft0[o] - 2

\* C8: between construction and activation an object has made no scheduling
\* call, has nothing pending, has not fired, and its counter holds the value
\* it was constructed with.
C8_ConstructionSchedulesNothing ==
    \A o \in objs : ~started[o] =>
        /\ ~Pending(o)
        /\ requests[o] = << >>
        /\ fireLog[o] = << >>
        /\ timesLeft[o] = timesLeft0[o]
        /\ \E p \in Params : p[1] = timesLeft[o] /\ p[2] = latency[o]

C8_Witness ==
    \E o \in objs :
        /\ ~started[o]
        /\ timesLeft[o] = InitTimesLeft
        /\ latency[o] = InitLatency

\* C9: with startup() invoked at most once per object, the event queue never
\* holds more than one entry of the same object.
C9_AtMostOnePending ==
    \A o \in objs : NumPending(o) <= 1

C9_Witness ==
    \E o \in objs : NumPending(o) = 1 /\ Fired(o) >= 1

\* C10: an object constructed with a counter <= 0 still gets a callback
\* scheduled by activation; the callback fires once, leaves the counter at
\* the initial value minus one and schedules nothing, and nothing is pending
\* afterwards.
C10_NonPositiveFiresOnce ==
    \A o \in objs : (started[o] /\ timesLeft0[o] <= 0) =>
        /\ Len(requests[o]) = 1
        /\ requests[o][1].by = "startup"
        /\ Fired(o) <= 1
        /\ Fired(o) = 0 => NumPending(o) = 1 /\ timesLeft[o] = timesLeft0[o]
        /\ Fired(o) = 1 => timesLeft[o] = timesLeft0[o] - 1 /\ ~Pending(o)

C10_Witness ==
    \E o \in objs :
        /\ timesLeft0[o] = 0
        /\ Fired(o) = 1
        /\ timesLeft[o] = 0 - 1
        /\ ~Pending(o)

\* C11: under a host that delivers every pending callback and tears nothing
\* down, an activated object eventually is Done with nothing pending; and in
\* no state has an activated object that is not yet Done lost its pending
\* callback, so no step of the object or the host stops the countdown early.
C11_RunsToCompletion ==
    /\ \A o \in ObjIds :
          (o \in objs /\ started[o]) ~> (Done(o) /\ ~Pending(o))
    /\ [](\A o \in objs : (started[o] /\ ~Done(o)) => Pending(o))

C11_Witness ==
    \E o \in objs :
        /\ Done(o)
        /\ ~Pending(o)
        /\ timesLeft0[o] = InitTimesLeft
        /\ \E k \in 1..Fired(o) : ~OnTime(o, k)

\* C14: an object constructed with counter N >= 1 keeps its counter within
\* 0..N, has fired N minus the counter times, and the firing that leaves the
\* counter <= 0 leaves it at exactly 0.
C14_CounterWithinRange ==
    \A o \in objs : timesLeft0[o] >= 1 =>
        /\ timesLeft[o] \in 0..timesLeft0[o]
        /\ Fired(o) = timesLeft0[o] - timesLeft[o]
        /\ \A k \in 1..Fired(o) :
              fireLog[o][k].left <= 0 => fireLog[o][k].left = 0 /\ k = Fired(o)

C14_Witness ==
    \E o \in objs :
        /\ timesLeft0[o] = MaxCounter
        /\ Fired(o) = MaxCounter
        /\ fireLog[o][Fired(o)].left = 0

\* C15: every scheduling call, of startup() and of processEvent(), names a
\* tick strictly later than the tick at which the call is made.
C15_RequestsStrictlyLater ==
    \A o \in objs : \A k \in 1..Len(requests[o]) :
        requests[o][k].when > requests[o][k].at

\* The ticks object o has a callback pending for
PendingWhens(o) == {eventq[i].when : i \in PendingOf(o)}

\* The step is a firing or the activation of object o
Acts(o) == fireLog'[o] # fireLog[o] \/ started'[o] # started[o]

\* C12: with two counter objects on one host, in any interleaving, a step
\* that is a firing or the activation of one object leaves the counter, the
\* delay, the pending callback and the logs of every other object as they
\* were; and each object constructed with N >= 1 fires at most N times,
\* firing j leaving N - j, and has fired exactly N times once it is
\* activated and has nothing pending.
C12_ObjectsIndependent ==
    /\ [][\A o \in objs : \A p \in objs \ {o} :
            Acts(p) =>
                /\ timesLeft'[o] = timesLeft[o]
                /\ latency'[o] = latency[o]
                /\ started'[o] = started[o]
                /\ PendingWhens(o)' = PendingWhens(o)
                /\ NumPending(o)' = NumPending(o)
                /\ requests'[o] = requests[o]
                /\ fireLog'[o] = fireLog[o]]_vars
    /\ [](\A o \in objs : timesLeft0[o] >= 1 =>
            /\ Fired(o) <= timesLeft0[o]
            /\ \A j \in 1..Fired(o) : fireLog[o][j].left = timesLeft0[o] - j
            /\ (started[o] /\ ~Pending(o)) => Fired(o) = timesLeft0[o])

\* Both objects have run to completion, with different counters, and a
\* firing of object 2 fell between two firings of object 1
C12_Witness ==
    /\ objs = {1, 2}
    /\ timesLeft0[1] = 2 /\ timesLeft0[2] = 1
    /\ latency[1] # latency[2]
    /\ Fired(1) = 2 /\ Fired(2) = 1
    /\ ~Pending(1) /\ ~Pending(2)
    /\ fireLog[1][1].at <= fireLog[2][1].at
    /\ fireLog[2][1].at <= fireLog[1][2].at
    /\ fireLog[1][1].at < fireLog[1][2].at

\* The counter values the firings of object o have left, in order
Lefts(o) == [k \in 1..Fired(o) |-> fireLog[o][k].left]

\* C13: the run under the opposite setting of the debug flag HelloExample,
\* given the same host inputs (construction values, startup tick, delivery
\* ticks), has the same counter, the same sequence of counter values and the
\* same sequence of scheduling calls, with the same ticks.
C13_DebugFlagIrrelevant ==
    \A o \in objs :
        /\ shadow[o].timesLeft = timesLeft[o]
        /\ shadow[o].lefts = Lefts(o)
        /\ shadow[o].requests = requests[o]

\* A finished run with the flag enabled, which has emitted its lines, next
\* to its twin with the flag disabled
C13_Witness ==
    \E o \in objs :
        /\ HelloExample
        /\ timesLeft0[o] = MaxCounter
        /\ Fired(o) = MaxCounter
        /\ Len(out) = MaxCounter + 2
        /\ Len(shadow[o].requests) = MaxCounter

\* C16: a step that constructs a HelloObject21 or HelloObject22 leaves the
\* event queue, the clock and every counter object as they were, and every
\* pending callback belongs to a counter object, so the diagnostic-only
\* objects never fire.  (They have no field: the model keeps of them only
\* their class.)
C16_DiagnosticObjectsInert ==
    /\ [][diag' # diag =>
            /\ eventq' = eventq
            /\ curTick' = curTick
            /\ objs' = objs
            /\ timesLeft' = timesLeft
            /\ latency' = latency
            /\ started' = started
            /\ requests' = requests
            /\ fireLog' = fireLog]_vars
    /\ [](\A i \in 1..Len(eventq) : eventq[i].obj \in objs)

\* Diagnostic-only objects of both classes were built, a HelloObject21
\* between two firings of the counter object, which has then run to
\* completion
C16_Witness ==
    /\ HelloExample
    /\ Len(diag) = MaxDiagObjs
    /\ \E j, k \in 1..Len(diag) : diag[j] = "HelloObject21" /\ diag[k] = "HelloObject22"
    /\ \E o \in objs : timesLeft0[o] = 2 /\ Fired(o) = 2 /\ ~Pending(o)
    /\ \E m, n, r \in 1..Len(out) :
          /\ m < n /\ n < r
          /\ out[m][2] = "Hello world! Processing the event! %d left"
          /\ out[n][1] = "cout"
          /\ out[r][2] = "Done firing!"

====
